---- MODULE Spec2Model ----
(***************************************************************************)
(* Model of internal/converter/task.go: the VideoConverter task handler    *)
(* (Handle), the task processor (processVideo) and the chunk merger        *)
(* (mergeChunks, extractNumber).                                           *)
(*                                                                         *)
(* Every Handle invocation is a process with its own position (pc); one    *)
(* action is one blocking call of the handler on a collaborator (database, *)
(* filesystem, transcoder, broker), so that several invocations can        *)
(* interleave at exactly the points where the Go code can.                 *)
(***************************************************************************)
EXTENDS Integers, Sequences, FiniteSets, TLC

\* ------------------------------------------------------------------ bounds
MaxDeliveries   == 2  \* deliveries handled when invocations may overlap
MaxRedeliveries == 3  \* deliveries handled when they come one at a time
MaxFaults       == 1  \* collaborator failures and malformed bodies injected
MaxChunks       == 3  \* chunk files of a directory given to mergeChunks

Max(a, b) == IF a >= b THEN a ELSE b
Min(a, b) == IF a <= b THEN a ELSE b

Deliveries == 1..Max(MaxDeliveries, MaxRedeliveries)
VideoIDs   == {1, 2}

\* At most two invocations of Handle are in progress at the same time.
MaxConcurrent == Min(2, MaxDeliveries)

\* ------------------------------------------------------------- file names
\* Strings the code inspects character by character are sequences of
\* one-character strings.
Digits == {"0", "1", "2", "3", "4", "5", "6", "7", "8", "9"}

DigitVal(c) ==
  CASE c = "0" -> 0 [] c = "1" -> 1 [] c = "2" -> 2 [] c = "3" -> 3
    [] c = "4" -> 4 [] c = "5" -> 5 [] c = "6" -> 6 [] c = "7" -> 7
    [] c = "8" -> 8 [] c = "9" -> 9

DigitChar(n) ==
  CASE n = 0 -> "0" [] n = 1 -> "1" [] n = 2 -> "2" [] n = 3 -> "3"
    [] n = 4 -> "4" [] n = 5 -> "5" [] n = 6 -> "6" [] n = 7 -> "7"
    [] n = 8 -> "8" [] n = 9 -> "9"

ChunkExt == <<".", "c", "h", "u", "n", "k">>

HasSuffix(s, suf) ==
  /\ Len(s) >= Len(suf)
  /\ SubSeq(s, Len(s) - Len(suf) + 1, Len(s)) = suf

\* filepath.Base: the part after the last separator.
Base(name) ==
  LET seps == {i \in 1..Len(name) : name[i] = "/"}
  IN  IF seps = {} THEN name
      ELSE LET last == CHOOSE i \in seps : \A j \in seps : j <= i
           IN  SubSeq(name, last + 1, Len(name))

\* regexp (\d+) with FindString: the leftmost, longest run of digits, "" if
\* there is none.
FindDigits(s) ==
  LET ds == {i \in 1..Len(s) : s[i] \in Digits}
  IN  IF ds = {} THEN <<>>
      ELSE LET first == CHOOSE i \in ds : \A j \in ds : i <= j
               ends  == {j \in first..Len(s) : \A k \in first..j : s[k] \in Digits}
               last  == CHOOSE j \in ends : \A k \in ends : k <= j
           IN  SubSeq(s, first, last)

RECURSIVE DecValue(_)
DecValue(ds) ==
  IF ds = <<>> THEN 0
  ELSE 10 * DecValue(SubSeq(ds, 1, Len(ds) - 1)) + DigitVal(ds[Len(ds)])

\* A run of digits without its leading zeros.
RECURSIVE StripZeros(_)
StripZeros(ds) ==
  IF Len(ds) > 1 /\ ds[1] = "0" THEN StripZeros(Tail(ds)) ELSE ds

\* x < y for two runs of digits without leading zeros, as numbers of any size.
DecLess(x, y) ==
  \/ Len(x) < Len(y)
  \/ /\ Len(x) = Len(y)
     /\ \E i \in 1..Len(x) :
          /\ \A j \in 1..(i - 1) : x[j] = y[j]
          /\ DigitVal(x[i]) < DigitVal(y[i])

\* The largest int (64 bits): 2^63 - 1.
MaxInt64Dec == <<"9", "2", "2", "3", "3", "7", "2", "0", "3", "6",
                 "8", "5", "4", "7", "7", "5", "8", "0", "7">>

\* strconv.Atoi on a run of digits: a syntax error for the empty string, a
\* range error for a value above the largest int.  (The value of a run that
\* fits is computed with the integers of the checker, so the runs of the
\* model are either short or out of range.)
Atoi(ds) ==
  IF ds = <<>> \/ DecLess(MaxInt64Dec, StripZeros(ds))
  THEN [err |-> TRUE, num |-> 0]
  ELSE [err |-> FALSE, num |-> DecValue(ds)]

extractNumber(fileName) ==
  LET r == Atoi(FindDigits(Base(fileName)))
  IN  IF r.err THEN -1 ELSE r.num

\* --------------------------------------------------------- the filesystem
\* A directory entry: its name and its bytes.
File(name, data) == [name |-> name, data |-> data]

\* The task paths of the model: a plain one and one with a double quote
\* (legal in a path and in a JSON string value).
PlainPath  == <<"v">>
QuotedPath == <<"w", "\"">>
Paths      == {PlainPath, QuotedPath}

\* The task directories of the model.  The first has the chunks p_2 and p_10
\* (numeric and lexicographic order differ) and a file that is no chunk; the
\* second has a chunk without digits and a two-byte chunk (a copy can fail
\* after its first byte).
InitDir(p) ==
  IF p = PlainPath
  THEN { File(<<"p", "_", "1", "0">> \o ChunkExt, <<3>>),
         File(<<"p", "_", "2">> \o ChunkExt, <<2>>),
         File(<<"9", ".", "t", "m", "p">>, <<9>>) }
  ELSE { File(<<"x">> \o ChunkExt, <<4>>),
         File(<<"c", "_", "0">> \o ChunkExt, <<5, 6>>) }

\* The chunk files mergeChunks is tried on: numbers whose numeric and
\* lexicographic orders differ, leading zeros, two runs of digits, no digit
\* at all, a number shared with another chunk, and a run of twenty digits.
\* Every chunk has its own byte, so the merged bytes show the order.
LongRun == [i \in 1..20 |-> "9"]

ChunkFiles ==
  { File(<<"p", "_", "1", "0">> \o ChunkExt, <<3>>),
    File(<<"p", "_", "2">> \o ChunkExt, <<2>>),
    File(<<"p", "_", "0", "0", "7">> \o ChunkExt, <<7>>),
    File(<<"a", "1", "b", "9">> \o ChunkExt, <<1>>),
    File(<<"x">> \o ChunkExt, <<4>>),
    File(<<"q", "_", "2">> \o ChunkExt, <<6>>),
    File(<<"p", "_">> \o LongRun \o ChunkExt, <<5>>) }

\* A directory of at most MaxChunks chunks and one file that is no chunk.
Dirs ==
  { S \cup {File(<<"9", ".", "t", "m", "p">>, <<9>>)} :
      S \in {T \in SUBSET ChunkFiles : Cardinality(T) <= MaxChunks} }

\* What an earlier run may have left in merged.mp4.
StaleData == <<8, 8, 8, 8, 8, 8>>

NoFile == "absent"

\* filepath.Glob(inputDir/*.chunk)
Glob(dir) == {f \in dir : HasSuffix(f.name, ChunkExt)}

\* The files in the order the directory listing gave them: no sort.
Unsorted(S) ==
  {s \in [1..Cardinality(S) -> S] :
     \A i, j \in 1..Cardinality(S) : i # j => s[i] # s[j]}

\* sort.Slice with less(i,j) == extractNumber(i) < extractNumber(j): the
\* sort is not stable, so the result is any arrangement of the files in
\* non-decreasing order of sequence number.
SortedOrders(S) ==
  {s \in [1..Cardinality(S) -> S] :
     /\ \A i, j \in 1..Cardinality(S) : i # j => s[i] # s[j]
     /\ \A i, j \in 1..Cardinality(S) :
          i < j => extractNumber(s[i].name) <= extractNumber(s[j].name)}

\* A write of bytes bs at offset off of a file with content c (a hole left
\* by a truncation reads as zeros).
RECURSIVE Zeros(_)
Zeros(n) == IF n <= 0 THEN <<>> ELSE <<0>> \o Zeros(n - 1)

WriteAt(c, off, bs) ==
  LET head == IF off <= Len(c) THEN SubSeq(c, 1, off)
              ELSE c \o Zeros(off - Len(c))
      tail == IF off + Len(bs) < Len(c)
              THEN SubSeq(c, off + Len(bs) + 1, Len(c)) ELSE <<>>
  IN  head \o bs \o tail

\* ------------------------------------------------------------ the messages
\* An inbound body: well-formed JSON of a task, JSON that does not parse
\* ("syntax"), or JSON whose path has the wrong type ("type").
Bodies == [kind : {"ok"}, video_id : VideoIDs, path : Paths]
            \cup {[kind |-> "syntax", video_id |-> 0, path |-> <<>>]}
            \cup [kind : {"type"}, video_id : VideoIDs, path : {<<>>}]

ZeroTask == [video_id |-> 0, path |-> <<>>]

\* json.Unmarshal(d.Body, &task): a syntax error leaves task untouched; a
\* type error on one field still decodes the other fields.
Unmarshal(b) ==
  CASE b.kind = "ok"     -> [err |-> FALSE,
                             task |-> [video_id |-> b.video_id, path |-> b.path]]
    [] b.kind = "syntax" -> [err |-> TRUE, task |-> ZeroTask]
    [] b.kind = "type"   -> [err |-> TRUE,
                             task |-> [video_id |-> b.video_id, path |-> <<>>]]

\* %d of a non-negative int
RECURSIVE IntToDec(_)
IntToDec(n) ==
  IF n < 10 THEN <<DigitChar(n)>>
  ELSE IntToDec(n \div 10) \o <<DigitChar(n % 10)>>

\* fmt.Sprintf(`{"video_id": %d, "path": "%s"}`, VideoID, Path): the digits
\* of the id, and the path copied as it is between the quotes.  The fixed
\* text up to the opening quote of the path is kept out of the model; `rest`
\* is everything after that quote.
ConfirmationMessage(task) ==
  [id |-> IntToDec(task.video_id), rest |-> task.path \o <<"\"", "}">>]

\* The consumer of the confirmation event decodes the body as JSON: the
\* string value runs to the first quote that is not escaped, a backslash
\* starts an escape, and the object must close right after the string.
Invalid == "invalid"
LF      == "<LF>"

RECURSIVE JsonString(_, _)
JsonString(rest, acc) ==
  IF rest = <<>> THEN Invalid
  ELSE IF rest[1] = "\"" THEN [str |-> acc, after |-> Tail(rest)]
  ELSE IF rest[1] = "\\"
       THEN IF Len(rest) < 2 THEN Invalid
            ELSE IF rest[2] \in {"\"", "\\", "/"}
                 THEN JsonString(SubSeq(rest, 3, Len(rest)), acc \o <<rest[2]>>)
            ELSE IF rest[2] = "n"
                 THEN JsonString(SubSeq(rest, 3, Len(rest)), acc \o <<LF>>)
            ELSE Invalid
  ELSE JsonString(Tail(rest), acc \o <<rest[1]>>)

ParseConfirmation(msg) ==
  LET r == JsonString(msg.rest, <<>>)
  IN  IF r = Invalid THEN Invalid
      ELSE IF r.after # <<"}">> THEN Invalid
      ELSE [video_id |-> DecValue(msg.id), path |-> r.str]

\* ---------------------------------------------------------------- state
VARIABLES
  chunks,         \* path -> the files of the task directory
  mergedIno,      \* path -> inode merged.mp4 names, 0 when there is no such file
  mergedData,     \* path -> the bytes of that inode
  dashDir,        \* path -> whether path/mpeg-dash exists
  manifest,       \* path -> NoFile, or the media output.mpd was produced from
  nextIno,        \* the next unused inode number
  processed,      \* the processing records: a set of video ids
  errors,         \* the error records, in the order they were registered
  confirmations,  \* the confirmation events published, in order
  acked,          \* delivery -> whether d.Ack was called
  pc,             \* delivery -> position of its Handle invocation
  task,           \* delivery -> the local variable task
  fd,             \* delivery -> inode of the open output file, 0 when closed
  off,            \* delivery -> write offset of the open output file
  list,           \* delivery -> the chunks still to copy, in order
  calls,          \* delivery -> the calls the invocation made, in order
  faults          \* failures injected so far

fsVars  == <<chunks, mergedIno, mergedData, dashDir, manifest, nextIno>>
dbVars  == <<processed, errors>>
mqVars  == <<acked, confirmations>>
runVars == <<pc, task, fd, off, list, calls>>
vars    == <<fsVars, dbVars, mqVars, runVars, faults>>

Init ==
  /\ chunks = [p \in Paths |-> InitDir(p)]
  /\ mergedIno = [p \in Paths |-> 0]
  /\ mergedData = [p \in Paths |-> <<>>]
  /\ dashDir = [p \in Paths |-> FALSE]
  /\ manifest = [p \in Paths |-> NoFile]
  /\ nextIno = 1
  /\ processed = {}
  /\ errors = <<>>
  /\ confirmations = <<>>
  /\ acked = [d \in Deliveries |-> FALSE]
  /\ pc = [d \in Deliveries |-> "none"]
  /\ task = [d \in Deliveries |-> ZeroTask]
  /\ fd = [d \in Deliveries |-> 0]
  /\ off = [d \in Deliveries |-> 0]
  /\ list = [d \in Deliveries |-> <<>>]
  /\ calls = [d \in Deliveries |-> <<>>]
  /\ faults = 0

Active == {d \in Deliveries : pc[d] \notin {"none", "done"}}

\* The code treats every video id alike, so the ids are numbered in the order
\* in which they first arrive: a body may carry an id already seen or the
\* next one.  (The bodies that do not parse carry no id.)
NextID(b) ==
  b.video_id = 0
    \/ \A v \in VideoIDs :
         v < b.video_id => \E e \in Deliveries : pc[e] # "none" /\ task[e].video_id = v

\* The invocation of d moves to position `to` having made the calls `evs`.
Goto(d, to, evs) ==
  /\ pc' = [pc EXCEPT ![d] = to]
  /\ calls' = [calls EXCEPT ![d] = @ \o evs]

\* A collaborator fails: one of the MaxFaults failures of the behaviour,
\* unless the state leaves the call no way to succeed (forced).
Fails(forced) ==
  \/ /\ faults < MaxFaults
     /\ faults' = faults + 1
  \/ /\ forced
     /\ faults' = faults

NoFault == faults' = faults

\* ------------------------------------------------ persistence collaborator
IsProcessed(db, videoID) == videoID \in db

MarkProcessed(db, videoID) == db \cup {videoID}

RegisterError(errs, errorData) == Append(errs, errorData)

\* logError: one structured log line and one error record.  `run` names the
\* invocation that wrote the record.
logError(d, t, message) ==
  errors' = RegisterError(errors,
              [video_id |-> t.video_id, error |-> message, run |-> d])

\* ---------------------------------------------------------------- Handle
\* Handle without the return after the unmarshal error.
HandleNoReturn(d, b, limit, last) ==
  /\ pc[d] = "none"
  /\ d <= last
  /\ \A e \in Deliveries : e < d => pc[e] # "none"
  /\ Cardinality(Active) < limit
  /\ NextID(b)
  /\ task' = [task EXCEPT ![d] = Unmarshal(b).task]
  /\ IF Unmarshal(b).err
     THEN /\ Fails(FALSE)
          /\ logError(d, Unmarshal(b).task, "Failed to unmarshal task")
          /\ Goto(d, "check", <<"Unmarshal:err", "logError">>)
     ELSE /\ NoFault
          /\ Goto(d, "check", <<"Unmarshal:ok">>)
          /\ UNCHANGED errors
  /\ UNCHANGED <<fsVars, processed, mqVars, fd, off, list>>

\* Handle is called with a delivery; json.Unmarshal of the body.
Handle(d, b, limit, last) ==
  /\ pc[d] = "none"
  /\ d <= last
  /\ \A e \in Deliveries : e < d => pc[e] # "none"
  /\ Cardinality(Active) < limit
  /\ NextID(b)
  /\ task' = [task EXCEPT ![d] = Unmarshal(b).task]
  /\ IF Unmarshal(b).err
     THEN /\ Fails(FALSE)
          /\ logError(d, Unmarshal(b).task, "Failed to unmarshal task")
          /\ Goto(d, "done", <<"Unmarshal:err", "logError">>)
     ELSE /\ NoFault
          /\ Goto(d, "check", <<"Unmarshal:ok">>)
          /\ UNCHANGED errors
  /\ UNCHANGED <<fsVars, processed, mqVars, fd, off, list>>

\* The idempotency check without its return: the message is acknowledged and
\* processed again.
HandleIsProcessedNoReturn(d) ==
  /\ pc[d] = "check"
  /\ IF IsProcessed(processed, task[d].video_id)
     THEN /\ acked' = [acked EXCEPT ![d] = TRUE]
          /\ Goto(d, "merge", <<"IsProcessed:true", "Ack">>)
     ELSE /\ Goto(d, "merge", <<"IsProcessed:false">>)
          /\ UNCHANGED acked
  /\ UNCHANGED <<fsVars, dbVars, confirmations, task, fd, off, list, faults>>

\* if IsProcessed(...) { d.Ack(false); return }
HandleIsProcessed(d) ==
  /\ pc[d] = "check"
  /\ IF IsProcessed(processed, task[d].video_id)
     THEN /\ acked' = [acked EXCEPT ![d] = TRUE]
          /\ Goto(d, "done", <<"IsProcessed:true", "Ack">>)
     ELSE /\ Goto(d, "merge", <<"IsProcessed:false">>)
          /\ UNCHANGED acked
  /\ UNCHANGED <<fsVars, dbVars, confirmations, task, fd, off, list, faults>>

\* The output file opened for appending instead of truncated.
osCreateAppend(p) ==
  IF mergedIno[p] = 0
  THEN [ino |-> nextIno, data |-> <<>>, off |-> 0]
  ELSE [ino |-> mergedIno[p], data |-> mergedData[p], off |-> Len(mergedData[p])]

\* The output file opened without O_TRUNC: an existing file keeps its bytes
\* and is overwritten from offset 0.
osCreateNoTrunc(p) ==
  IF mergedIno[p] = 0
  THEN [ino |-> nextIno, data |-> <<>>, off |-> 0]
  ELSE [ino |-> mergedIno[p], data |-> mergedData[p], off |-> 0]

\* os.Create(outputFile): O_RDWR|O_CREATE|O_TRUNC.  An existing file keeps
\* its inode and loses its bytes.
osCreate(p) ==
  IF mergedIno[p] = 0
  THEN [ino |-> nextIno, data |-> <<>>, off |-> 0]
  ELSE [ino |-> mergedIno[p], data |-> <<>>, off |-> 0]

\* mergeChunks up to the creation of the output file: Glob, sort.Slice,
\* os.Create.  A failure is reported by processVideo.
mergeChunksCreate(d) ==
  LET p == task[d].path IN
  /\ pc[d] = "merge"
  /\ \/ /\ Fails(FALSE)
        /\ logError(d, task[d], "Failed to merge chunks")
        /\ Goto(d, "procfail", <<"mergeChunks:err", "logError">>)
        /\ UNCHANGED <<fsVars, fd, off, list>>
     \/ \E s \in SortedOrders(Glob(chunks[p])) :
          LET f == osCreate(p) IN
          /\ NoFault
          /\ mergedIno' = [mergedIno EXCEPT ![p] = f.ino]
          /\ mergedData' = [mergedData EXCEPT ![p] = f.data]
          /\ nextIno' = IF f.ino = nextIno THEN nextIno + 1 ELSE nextIno
          /\ fd' = [fd EXCEPT ![d] = f.ino]
          /\ off' = [off EXCEPT ![d] = f.off]
          /\ list' = [list EXCEPT ![d] = s]
          /\ IF s = <<>>
             THEN Goto(d, "mkdir", <<"Create:ok", "mergeChunks:ok">>)
             ELSE Goto(d, "copy", <<"Create:ok">>)
          /\ UNCHANGED <<chunks, dashDir, manifest, errors>>
  /\ UNCHANGED <<processed, mqVars, task>>

\* A write through the open output file reaches merged.mp4 only while the
\* name still refers to the inode that was opened.
fileWrite(d, p, bs) ==
  mergedData' = IF fd[d] = mergedIno[p]
                THEN [mergedData EXCEPT ![p] = WriteAt(@, off[d], bs)]
                ELSE mergedData

\* The loop of mergeChunks deleting every chunk it has copied.
mergeChunksCopyConsume(d) ==
  LET p == task[d].path
      c == Head(list[d])
  IN
  /\ pc[d] = "copy"
  /\ list[d] # <<>>
  /\ \/ /\ NoFault
        /\ fileWrite(d, p, c.data)
        /\ chunks' = [chunks EXCEPT ![p] = @ \ {c}]
        /\ list' = [list EXCEPT ![d] = Tail(@)]
        /\ IF Tail(list[d]) = <<>>
           THEN /\ Goto(d, "mkdir", <<"Copy:ok", "mergeChunks:ok">>)
                /\ fd' = [fd EXCEPT ![d] = 0]
                /\ off' = [off EXCEPT ![d] = 0]
           ELSE /\ Goto(d, "copy", <<"Copy:ok">>)
                /\ off' = [off EXCEPT ![d] = @ + Len(c.data)]
                /\ UNCHANGED fd
        /\ UNCHANGED errors
     \/ \E k \in 0..(Len(c.data) - 1) \cup {0} :
          /\ Fails(FALSE)
          /\ fileWrite(d, p, SubSeq(c.data, 1, k))
          /\ logError(d, task[d], "Failed to merge chunks")
          /\ Goto(d, "procfail", <<"mergeChunks:err", "logError">>)
          /\ fd' = [fd EXCEPT ![d] = 0]
          /\ off' = [off EXCEPT ![d] = 0]
          /\ list' = [list EXCEPT ![d] = <<>>]
          /\ UNCHANGED chunks
  /\ UNCHANGED <<mergedIno, dashDir, manifest, nextIno>>
  /\ UNCHANGED <<processed, mqVars, task>>

\* One turn of the loop of mergeChunks: os.Open of the next chunk and
\* output.ReadFrom(input); after the last chunk the file is closed and
\* mergeChunks returns nil.
mergeChunksCopy(d) ==
  LET p == task[d].path
      c == Head(list[d])
  IN
  /\ pc[d] = "copy"
  /\ list[d] # <<>>
  /\ \/ /\ NoFault
        /\ fileWrite(d, p, c.data)
        /\ list' = [list EXCEPT ![d] = Tail(@)]
        /\ IF Tail(list[d]) = <<>>
           THEN /\ Goto(d, "mkdir", <<"Copy:ok", "mergeChunks:ok">>)
                /\ fd' = [fd EXCEPT ![d] = 0]
                /\ off' = [off EXCEPT ![d] = 0]
           ELSE /\ Goto(d, "copy", <<"Copy:ok">>)
                /\ off' = [off EXCEPT ![d] = @ + Len(c.data)]
                /\ UNCHANGED fd
        /\ UNCHANGED errors
     \/ \E k \in 0..(Len(c.data) - 1) \cup {0} :
          /\ Fails(FALSE)
          /\ fileWrite(d, p, SubSeq(c.data, 1, k))
          /\ logError(d, task[d], "Failed to merge chunks")
          /\ Goto(d, "procfail", <<"mergeChunks:err", "logError">>)
          /\ fd' = [fd EXCEPT ![d] = 0]
          /\ off' = [off EXCEPT ![d] = 0]
          /\ list' = [list EXCEPT ![d] = <<>>]
  /\ UNCHANGED <<chunks, mergedIno, dashDir, manifest, nextIno>>
  /\ UNCHANGED <<processed, mqVars, task>>

\* processVideo going on to the transcoder when os.MkdirAll failed.
processVideoMkdirNoReturn(d) ==
  LET p == task[d].path IN
  /\ pc[d] = "mkdir"
  /\ \/ /\ NoFault
        /\ dashDir' = [dashDir EXCEPT ![p] = TRUE]
        /\ Goto(d, "transcode", <<"MkdirAll:ok">>)
        /\ UNCHANGED errors
     \/ /\ Fails(FALSE)
        /\ logError(d, task[d], "Failed to create mpeg-dash directory")
        /\ Goto(d, "transcode", <<"MkdirAll:err", "logError">>)
        /\ UNCHANGED dashDir
  /\ UNCHANGED <<chunks, mergedIno, mergedData, manifest, nextIno>>
  /\ UNCHANGED <<processed, mqVars, task, fd, off, list>>

\* os.MkdirAll(mpegDashPath, ...): nil when the directory is already there.
processVideoMkdir(d) ==
  LET p == task[d].path IN
  /\ pc[d] = "mkdir"
  /\ \/ /\ NoFault
        /\ dashDir' = [dashDir EXCEPT ![p] = TRUE]
        /\ Goto(d, "transcode", <<"MkdirAll:ok">>)
        /\ UNCHANGED errors
     \/ /\ Fails(FALSE)
        /\ logError(d, task[d], "Failed to create mpeg-dash directory")
        /\ Goto(d, "procfail", <<"MkdirAll:err", "logError">>)
        /\ UNCHANGED dashDir
  /\ UNCHANGED <<chunks, mergedIno, mergedData, manifest, nextIno>>
  /\ UNCHANGED <<processed, mqVars, task, fd, off, list>>

\* processVideo cleaning up the merged file when the transcoder fails.
processVideoTranscodeCleanup(d) ==
  LET p == task[d].path IN
  /\ pc[d] = "transcode"
  /\ \/ /\ NoFault
        /\ mergedIno[p] # 0
        /\ dashDir[p]
        /\ manifest' = [manifest EXCEPT ![p] = mergedData[p]]
        /\ Goto(d, "remove", <<"ffmpeg:ok">>)
        /\ UNCHANGED <<errors, mergedIno, mergedData>>
     \/ /\ Fails(mergedIno[p] = 0 \/ ~dashDir[p])
        /\ logError(d, task[d], "Failed to convert to mpeg-dash")
        /\ Goto(d, "procfail", <<"ffmpeg:err", "logError">>)
        /\ mergedIno' = [mergedIno EXCEPT ![p] = 0]
        /\ mergedData' = [mergedData EXCEPT ![p] = <<>>]
        /\ UNCHANGED manifest
  /\ UNCHANGED <<chunks, dashDir, nextIno>>
  /\ UNCHANGED <<processed, mqVars, task, fd, off, list>>

\* ffmpeg -i merged.mp4 -f dash mpeg-dash/output.mpd, run to its end.  It
\* can succeed only when its input and its output directory exist.
processVideoTranscode(d) ==
  LET p == task[d].path IN
  /\ pc[d] = "transcode"
  /\ \/ /\ NoFault
        /\ mergedIno[p] # 0
        /\ dashDir[p]
        /\ manifest' = [manifest EXCEPT ![p] = mergedData[p]]
        /\ Goto(d, "remove", <<"ffmpeg:ok">>)
        /\ UNCHANGED errors
     \/ /\ Fails(mergedIno[p] = 0 \/ ~dashDir[p])
        /\ logError(d, task[d], "Failed to convert to mpeg-dash")
        /\ Goto(d, "procfail", <<"ffmpeg:err", "logError">>)
        /\ UNCHANGED manifest
  /\ UNCHANGED <<chunks, mergedIno, mergedData, dashDir, nextIno>>
  /\ UNCHANGED <<processed, mqVars, task, fd, off, list>>

\* processVideo returning nil although os.Remove failed.
processVideoRemoveIgnored(d) ==
  LET p == task[d].path IN
  /\ pc[d] = "remove"
  /\ \/ /\ NoFault
        /\ mergedIno[p] # 0
        /\ mergedIno' = [mergedIno EXCEPT ![p] = 0]
        /\ mergedData' = [mergedData EXCEPT ![p] = <<>>]
        /\ Goto(d, "mark", <<"Remove:ok", "processVideo:ok">>)
        /\ UNCHANGED errors
     \/ /\ Fails(mergedIno[p] = 0)
        /\ logError(d, task[d], "Failed to remove merged file")
        /\ Goto(d, "mark", <<"Remove:err", "logError", "processVideo:ok">>)
        /\ UNCHANGED <<mergedIno, mergedData>>
  /\ UNCHANGED <<chunks, dashDir, manifest, nextIno>>
  /\ UNCHANGED <<processed, mqVars, task, fd, off, list>>

\* os.Remove(mergedFile); processVideo returns nil after it.
processVideoRemove(d) ==
  LET p == task[d].path IN
  /\ pc[d] = "remove"
  /\ \/ /\ NoFault
        /\ mergedIno[p] # 0
        /\ mergedIno' = [mergedIno EXCEPT ![p] = 0]
        /\ mergedData' = [mergedData EXCEPT ![p] = <<>>]
        /\ Goto(d, "mark", <<"Remove:ok", "processVideo:ok">>)
        /\ UNCHANGED errors
     \/ /\ Fails(mergedIno[p] = 0)
        /\ logError(d, task[d], "Failed to remove merged file")
        /\ Goto(d, "procfail", <<"Remove:err", "logError">>)
        /\ UNCHANGED <<mergedIno, mergedData>>
  /\ UNCHANGED <<chunks, dashDir, manifest, nextIno>>
  /\ UNCHANGED <<processed, mqVars, task, fd, off, list>>

\* The error branch of processVideo marking the video processed.
HandleProcessFailedMarks(d) ==
  /\ pc[d] = "procfail"
  /\ logError(d, task[d], "Failed to process video")
  /\ processed' = MarkProcessed(processed, task[d].video_id)
  /\ Goto(d, "done", <<"processVideo:err", "logError">>)
  /\ UNCHANGED <<fsVars, mqVars, task, fd, off, list, faults>>

\* The error branch of processVideo without its own error record.
HandleProcessFailedSilent(d) ==
  /\ pc[d] = "procfail"
  /\ Goto(d, "done", <<"processVideo:err">>)
  /\ UNCHANGED <<fsVars, dbVars, mqVars, task, fd, off, list, faults>>

\* The error branch of processVideo without its return.
HandleProcessFailedNoReturn(d) ==
  /\ pc[d] = "procfail"
  /\ logError(d, task[d], "Failed to process video")
  /\ Goto(d, "mark", <<"processVideo:err", "logError">>)
  /\ UNCHANGED <<fsVars, processed, mqVars, task, fd, off, list, faults>>

\* err = vc.processVideo(&task); if err != nil { logError; return }
HandleProcessFailed(d) ==
  /\ pc[d] = "procfail"
  /\ logError(d, task[d], "Failed to process video")
  /\ Goto(d, "done", <<"processVideo:err", "logError">>)
  /\ UNCHANGED <<fsVars, processed, mqVars, task, fd, off, list, faults>>

\* MarkProcessed with its error not looked at.
HandleMarkProcessedUnchecked(d) ==
  /\ pc[d] = "mark"
  /\ \/ /\ NoFault
        /\ processed' = MarkProcessed(processed, task[d].video_id)
        /\ Goto(d, "ack", <<"MarkProcessed:ok">>)
     \/ /\ Fails(FALSE)
        /\ Goto(d, "ack", <<"MarkProcessed:err">>)
        /\ UNCHANGED processed
  /\ UNCHANGED <<fsVars, errors, mqVars, task, fd, off, list>>

\* The error branch of MarkProcessed without its return.
HandleMarkProcessedNoReturn(d) ==
  /\ pc[d] = "mark"
  /\ \/ /\ NoFault
        /\ processed' = MarkProcessed(processed, task[d].video_id)
        /\ Goto(d, "ack", <<"MarkProcessed:ok">>)
        /\ UNCHANGED errors
     \/ /\ Fails(FALSE)
        /\ logError(d, task[d], "Failed to mark video as processed")
        /\ Goto(d, "ack", <<"MarkProcessed:err", "logError">>)
        /\ UNCHANGED processed
  /\ UNCHANGED <<fsVars, mqVars, task, fd, off, list>>

\* err = MarkProcessed(vc.db, task.VideoID); if err != nil { logError; return }
HandleMarkProcessed(d) ==
  /\ pc[d] = "mark"
  /\ \/ /\ NoFault
        /\ processed' = MarkProcessed(processed, task[d].video_id)
        /\ Goto(d, "ack", <<"MarkProcessed:ok">>)
        /\ UNCHANGED errors
     \/ /\ Fails(FALSE)
        /\ logError(d, task[d], "Failed to mark video as processed")
        /\ Goto(d, "done", <<"MarkProcessed:err", "logError">>)
        /\ UNCHANGED processed
  /\ UNCHANGED <<fsVars, mqVars, task, fd, off, list>>

\* The acknowledgment held back until the confirmation is published.
HandleAckDeferred(d) ==
  /\ pc[d] = "ack"
  /\ Goto(d, "publish", <<>>)
  /\ UNCHANGED <<fsVars, dbVars, mqVars, task, fd, off, list, faults>>

\* d.Ack(false)
HandleAck(d) ==
  /\ pc[d] = "ack"
  /\ acked' = [acked EXCEPT ![d] = TRUE]
  /\ Goto(d, "publish", <<"Ack">>)
  /\ UNCHANGED <<fsVars, dbVars, confirmations, task, fd, off, list, faults>>

\* The broker either takes the message or returns an error.
PublishMessage(queue, message, ok) ==
  IF ok THEN Append(queue, message) ELSE queue

\* err = vc.rabbitmqClient.PublishMessage(...); the function ends here and
\* err is not looked at.
HandlePublish(d) ==
  /\ pc[d] = "publish"
  /\ \E ok \in BOOLEAN :
       /\ IF ok THEN NoFault ELSE Fails(FALSE)
       /\ confirmations' = PublishMessage(confirmations,
             [msg |-> ConfirmationMessage(task[d]), run |-> d], ok)
       /\ Goto(d, "done", <<IF ok THEN "Publish:ok" ELSE "Publish:err">>)
  /\ UNCHANGED <<fsVars, dbVars, acked, task, fd, off, list>>

\* The steps of an invocation after its start.
HandleStep(d) ==
  \/ HandleIsProcessed(d)
  \/ mergeChunksCreate(d)
  \/ mergeChunksCopy(d)
  \/ processVideoMkdir(d)
  \/ processVideoTranscode(d)
  \/ processVideoRemove(d)
  \/ HandleProcessFailed(d)
  \/ HandleMarkProcessed(d)
  \/ HandleAck(d)
  \/ HandlePublish(d)

\* The transport calls Handle for each delivery; invocations may overlap.
Next ==
  \/ \E d \in Deliveries, b \in Bodies : Handle(d, b, MaxConcurrent, MaxDeliveries)
  \/ \E d \in Deliveries : HandleStep(d)

Spec == Init /\ [][Next]_vars

\* The transport hands over one delivery at a time: a Handle invocation
\* starts only when the previous one has returned.
NextSeq ==
  \/ \E d \in Deliveries, b \in Bodies : Handle(d, b, 1, MaxRedeliveries)
  \/ \E d \in Deliveries : HandleStep(d)

SpecSeq == Init /\ [][NextSeq]_vars

\* mergeChunks on any directory of Dirs, with or without a merged.mp4 left
\* by an earlier run, in the one Handle invocation of a single delivery.
InitMerge ==
  /\ \E dir \in Dirs : chunks = [p \in Paths |-> IF p = PlainPath THEN dir ELSE InitDir(p)]
  /\ \E stale \in BOOLEAN :
       /\ mergedIno = [p \in Paths |-> IF stale /\ p = PlainPath THEN 1 ELSE 0]
       /\ mergedData = [p \in Paths |-> IF stale /\ p = PlainPath THEN StaleData ELSE <<>>]
  /\ nextIno = 2
  /\ dashDir = [p \in Paths |-> FALSE]
  /\ manifest = [p \in Paths |-> NoFile]
  /\ processed = {}
  /\ errors = <<>>
  /\ confirmations = <<>>
  /\ acked = [d \in Deliveries |-> FALSE]
  /\ pc = [d \in Deliveries |-> "none"]
  /\ task = [d \in Deliveries |-> ZeroTask]
  /\ fd = [d \in Deliveries |-> 0]
  /\ off = [d \in Deliveries |-> 0]
  /\ list = [d \in Deliveries |-> <<>>]
  /\ calls = [d \in Deliveries |-> <<>>]
  /\ faults = 0

NextMerge ==
  \/ \E d \in Deliveries, b \in Bodies : Handle(d, b, 1, 1)
  \/ \E d \in Deliveries : HandleStep(d)

SpecMerge == InitMerge /\ [][NextMerge]_vars

TypeOK ==
  /\ processed \subseteq VideoIDs
  /\ \A d \in Deliveries : pc[d] \in {"none", "check", "merge", "copy", "mkdir",
        "transcode", "remove", "procfail", "mark", "ack", "publish", "done"}
  /\ faults \in 0..MaxFaults

\* ------------------------------------------------------------ vocabulary
Done(d) == pc[d] = "done"

\* The invocation of d made the call ev.
Has(d, ev) == \E i \in DOMAIN calls[d] : calls[d][i] = ev

\* The invocation of d made the call a and later the call b.
Before(d, a, b) ==
  \E i, j \in DOMAIN calls[d] : i < j /\ calls[d][i] = a /\ calls[d][j] = b

ErrorsBy(d) == {i \in DOMAIN errors : errors[i].run = d}

ConfirmationsBy(d) == {i \in DOMAIN confirmations : confirmations[i].run = d}

\* The invocation of d returns in this step.
Returns(d) == pc[d] # "done" /\ pc'[d] = "done"

FailureCalls == {"Unmarshal:err", "mergeChunks:err", "MkdirAll:err", "ffmpeg:err",
                 "Remove:err", "MarkProcessed:err", "Publish:err"}

StepFailures == {"mergeChunks:err", "MkdirAll:err", "ffmpeg:err", "Remove:err"}

NoopCalls == <<"Unmarshal:ok", "IsProcessed:true", "Ack">>

RECURSIVE Concat(_)
Concat(s) == IF s = <<>> THEN <<>> ELSE Head(s).data \o Concat(Tail(s))

\* The concatenations of the chunks of a directory in sequence order.
Merges(dir) == {Concat(s) : s \in SortedOrders(Glob(dir))}

\* ------------------------------------------------------------------ C1
\* C1: for every video id, at most one Handle invocation has a processVideo
\* that returned success.
C1_AtMostOneProcessing ==
  \A v \in VideoIDs :
    Cardinality({d \in Deliveries :
                   task[d].video_id = v /\ Has(d, "processVideo:ok")}) <= 1

\* ------------------------------------------------------------------ C2
\* C2: a step that makes the idempotency check while the video id has a
\* processing record acknowledges the delivery and returns, and changes
\* neither the filesystem nor the processing and error records nor the
\* confirmations; an invocation that took this branch made no call but the
\* check and the acknowledgment.
C2_ProcessedIsNoop ==
  [][\A d \in Deliveries :
       /\ (pc[d] = "check" /\ pc'[d] # "check" /\ task[d].video_id \in processed)
            => /\ pc'[d] = "done"
               /\ acked'[d]
               /\ calls'[d] = NoopCalls
               /\ UNCHANGED <<fsVars, dbVars, confirmations>>
       /\ Has(d, "IsProcessed:true")'
            => /\ calls'[d] = NoopCalls
               /\ ErrorsBy(d)' = {}
               /\ ConfirmationsBy(d)' = {}]_vars

C2_Witness ==
  \E d \in Deliveries : Done(d) /\ acked[d] /\ calls[d] = NoopCalls

\* ------------------------------------------------------------------ C3
\* C3: a delivery that is acknowledged, or whose invocation published a
\* confirmation, has a processing record for its video id; and an invocation
\* that did not take the already-processed branch acknowledges only after
\* processVideo and then MarkProcessed succeeded, and publishes only after
\* the acknowledgment.
C3_MarkBeforeAckAndConfirm ==
  \A d \in Deliveries :
    /\ (acked[d] \/ ConfirmationsBy(d) # {}) => task[d].video_id \in processed
    /\ Has(d, "Ack") <=> acked[d]
    /\ (acked[d] /\ ~Has(d, "IsProcessed:true"))
         => /\ Before(d, "processVideo:ok", "MarkProcessed:ok")
            /\ Before(d, "MarkProcessed:ok", "Ack")
    /\ \A i \in DOMAIN calls[d] :
         calls[d][i] \in {"Publish:ok", "Publish:err"}
           => \E j \in 1..(i - 1) : calls[d][j] = "Ack"
    /\ ConfirmationsBy(d) # {} => Has(d, "Publish:ok")

C3_Witness ==
  \E d \in Deliveries :
    /\ Done(d) /\ acked[d] /\ ConfirmationsBy(d) # {}
    /\ Has(d, "MarkProcessed:ok")

\* ------------------------------------------------------------------ C4
\* C4: an invocation in which every step up to and including MarkProcessed
\* succeeds returns with merged.mp4 absent, the mpeg-dash directory and the
\* manifest present, the processing record present, the delivery
\* acknowledged, and exactly one confirmation published by it, whose body
\* decodes to the task's video id and path.
C4_SuccessEndState ==
  [][\A d \in Deliveries :
       (Returns(d) /\ Has(d, "MarkProcessed:ok")')
         => /\ mergedIno'[task[d].path] = 0
            /\ dashDir'[task[d].path]
            /\ manifest'[task[d].path] # NoFile
            /\ task[d].video_id \in processed'
            /\ acked'[d]
            /\ Cardinality(ConfirmationsBy(d)') = 1
            /\ \A i \in ConfirmationsBy(d)' :
                 ParseConfirmation(confirmations'[i].msg) = task[d]]_vars

\* ------------------------------------------------------------------ C5
\* C5: an invocation in which a step of processVideo failed goes to the error
\* branch of Handle and nowhere else; when it has returned it has registered
\* the error "Failed to process video" for the task's video id as its last
\* call, has not acknowledged, has not called MarkProcessed and has published
\* nothing.
C5_ProcessFailure ==
  \A d \in Deliveries :
    (\E i \in DOMAIN calls[d] : calls[d][i] \in StepFailures)
      => /\ pc[d] \in {"procfail", "done"}
         /\ ~acked[d]
         /\ ~Has(d, "Ack")
         /\ ~Has(d, "MarkProcessed:ok") /\ ~Has(d, "MarkProcessed:err")
         /\ ~Has(d, "Publish:ok") /\ ~Has(d, "Publish:err")
         /\ ConfirmationsBy(d) = {}
         /\ Done(d) =>
              /\ SubSeq(calls[d], Len(calls[d]) - 1, Len(calls[d]))
                   = <<"processVideo:err", "logError">>
              /\ \E i \in ErrorsBy(d) :
                   /\ errors[i].error = "Failed to process video"
                   /\ errors[i].video_id = task[d].video_id
                   /\ \A j \in ErrorsBy(d) : j <= i

C5_Witness ==
  \E d \in Deliveries :
    /\ Done(d) /\ Has(d, "Remove:err")
    /\ \E i \in ErrorsBy(d) : errors[i].error = "Failed to process video"

\* ------------------------------------------------------------------ C6
\* C6: with one invocation at a time, an invocation whose transcoder failed
\* after the merge and the directory creation succeeded returns with
\* merged.mp4 present, no processing record for the video id, an error
\* record written by it and no confirmation published by it.
C6_TranscodeFailureEndState ==
  [][\A d \in Deliveries :
       (Returns(d) /\ Has(d, "ffmpeg:err")')
         => /\ Before(d, "mergeChunks:ok", "MkdirAll:ok")'
            /\ mergedIno'[task[d].path] # 0
            /\ mergedData'[task[d].path] \in Merges(chunks'[task[d].path])
            /\ task[d].video_id \notin processed'
            /\ ~Has(d, "Remove:ok")' /\ ~Has(d, "Remove:err")'
            /\ ~Has(d, "MarkProcessed:ok")'
            /\ \E i \in ErrorsBy(d)' :
                 errors'[i].error = "Failed to convert to mpeg-dash"
            /\ ConfirmationsBy(d)' = {}
            /\ ~acked'[d]]_vars

C6_Witness ==
  \E d \in Deliveries :
    /\ Done(d) /\ Has(d, "ffmpeg:err")
    /\ mergedIno[task[d].path] # 0
    /\ task[d].video_id \notin processed
    /\ ErrorsBy(d) # {}

\* ------------------------------------------------------------------ C7
\* C7: with one invocation at a time, an invocation whose MarkProcessed
\* failed after processVideo succeeded returns having registered the error
\* "Failed to mark video as processed", without acknowledgment and without a
\* confirmation, while the manifest is present and merged.mp4 is deleted.
C7_MarkFailure ==
  [][\A d \in Deliveries :
       (Returns(d) /\ Has(d, "MarkProcessed:err")')
         => /\ Before(d, "processVideo:ok", "MarkProcessed:err")'
            /\ \E i \in ErrorsBy(d)' :
                 /\ errors'[i].error = "Failed to mark video as processed"
                 /\ errors'[i].video_id = task[d].video_id
            /\ ~acked'[d]
            /\ ~Has(d, "Ack")'
            /\ ~Has(d, "Publish:ok")' /\ ~Has(d, "Publish:err")'
            /\ ConfirmationsBy(d)' = {}
            /\ task[d].video_id \notin processed'
            /\ manifest'[task[d].path] \in Merges(chunks'[task[d].path])
            /\ dashDir'[task[d].path]
            /\ mergedIno'[task[d].path] = 0]_vars

C7_Witness ==
  \E d \in Deliveries :
    /\ Done(d) /\ Has(d, "MarkProcessed:err")
    /\ ~acked[d]
    /\ manifest[task[d].path] # NoFile
    /\ mergedIno[task[d].path] = 0

\* ------------------------------------------------------------------ C8
\* C8: an invocation whose body did not unmarshal has returned having made
\* exactly two calls, the failed Unmarshal and logError: one error record
\* "Failed to unmarshal task", no idempotency check, no processVideo, no
\* MarkProcessed, no acknowledgment, no confirmation.
C8_MalformedBody ==
  \A d \in Deliveries :
    Has(d, "Unmarshal:err")
      => /\ Done(d)
         /\ calls[d] = <<"Unmarshal:err", "logError">>
         /\ Cardinality(ErrorsBy(d)) = 1
         /\ \A i \in ErrorsBy(d) : errors[i].error = "Failed to unmarshal task"
         /\ ~acked[d]
         /\ ConfirmationsBy(d) = {}

C8_Witness ==
  \E d \in Deliveries :
    /\ Done(d) /\ Has(d, "Unmarshal:err")
    /\ ErrorsBy(d) # {}
    /\ task[d].video_id \notin processed

\* ------------------------------------------------------------------ C9
\* C9: an invocation that has returned after a failure at any stage
\* (unmarshal, merge, directory creation, transcode, deletion, MarkProcessed,
\* publication of the confirmation) has written an error record.
C9_EveryFailureRecorded ==
  \A d \in Deliveries :
    (Done(d) /\ \E e \in FailureCalls : Has(d, e)) => ErrorsBy(d) # {}

\* ----------------------------------------------------------------- C10
\* C10: with one delivery at a time, whatever earlier invocations left
\* behind, an invocation in which every step succeeds returns with the
\* manifest produced from exactly the concatenation of the chunks in sequence
\* order, merged.mp4 deleted, the processing record present, the delivery
\* acknowledged and one confirmation published; and an invocation for a
\* video id that an earlier invocation marked processed only acknowledges.
C10_RedeliverySafe ==
  [][\A d \in Deliveries :
       /\ (Returns(d) /\ Has(d, "Publish:ok")')
            => /\ manifest'[task[d].path] \in Merges(chunks'[task[d].path])
               /\ mergedIno'[task[d].path] = 0
               /\ dashDir'[task[d].path]
               /\ task[d].video_id \in processed'
               /\ acked'[d]
               /\ Cardinality(ConfirmationsBy(d)') = 1
       /\ (Returns(d) /\ \E e \in Deliveries :
              /\ e < d
              /\ task[e].video_id = task[d].video_id
              /\ Has(e, "MarkProcessed:ok"))
            => /\ calls'[d] = NoopCalls
               /\ acked'[d]
               /\ UNCHANGED <<fsVars, dbVars, confirmations>>]_vars

\* A run that failed and left merged.mp4 behind, a later run of the same
\* message that succeeded, and a run after it that was a no-op.
C10_Witness ==
  \E a, b, c \in Deliveries :
    /\ a < b /\ b < c
    /\ task[a] = task[b] /\ task[b] = task[c]
    /\ Done(a) /\ Has(a, "ffmpeg:err")
    /\ Done(b) /\ Has(b, "Publish:ok")
    /\ manifest[task[b].path] \in Merges(chunks[task[b].path])
    /\ mergedIno[task[b].path] = 0
    /\ Done(c) /\ calls[c] = NoopCalls /\ acked[c]

\* ----------------------------------------------------------------- C11
\* The invocation of d is between its os.Create of path/merged.mp4 and its
\* last access to the filesystem (os.Remove).
InProcessVideo(d) == pc[d] \in {"copy", "mkdir", "transcode", "remove"}

\* C11: two invocations in progress at the same time never work on the same
\* filesystem artifact: when both are inside processVideo, their merged.mp4
\* and mpeg-dash directory (both named by task.Path alone) are different.
C11_NoSharedArtifact ==
  \A d, e \in Deliveries :
    (d # e /\ InProcessVideo(d) /\ InProcessVideo(e))
      => task[d].path # task[e].path

\* ----------------------------------------------------------------- C12
\* The arrangements of the files S in which LE holds from every file to
\* every later one.
OrdersBy(S, LE(_, _)) ==
  {s \in [1..Cardinality(S) -> S] :
     /\ \A i, j \in 1..Cardinality(S) : i # j => s[i] # s[j]
     /\ \A i, j \in 1..Cardinality(S) : i < j => LE(s[i].name, s[j].name)}

\* The sequence number of a is at most that of b, when the sequence number
\* is the value of the first run of digits of the base name, whatever its
\* size, and -1 when the name has no digit.
DigitRunLE(a, b) ==
  LET x == FindDigits(Base(a))
      y == FindDigits(Base(b))
  IN  IF x = <<>> THEN TRUE
      ELSE IF y = <<>> THEN FALSE
      ELSE ~DecLess(StripZeros(y), StripZeros(x))

\* The same, when a run of digits above the largest int counts as no number
\* (-1) too.
NoNumber(x) == x = <<>> \/ DecLess(MaxInt64Dec, StripZeros(x))

IntRunLE(a, b) ==
  LET x == FindDigits(Base(a))
      y == FindDigits(Base(b))
  IN  IF NoNumber(x) THEN TRUE
      ELSE IF NoNumber(y) THEN FALSE
      ELSE ~DecLess(StripZeros(y), StripZeros(x))

\* While mergeChunks copies, and when it has returned nil, merged.mp4 holds
\* the first chunks of an arrangement in the order LE and the chunks still
\* to copy are the rest of it.
WrittenInOrder(d, LE(_, _)) ==
  LET p == task[d].path IN
  \E s \in OrdersBy(Glob(chunks[p]), LE) :
    \E k \in 0..Len(s) :
      /\ mergedData[p] = Concat(SubSeq(s, 1, k))
      /\ list[d] = SubSeq(s, k + 1, Len(s))

\* C12 as stated: the chunks are written in non-decreasing order of the
\* value of the first run of digits of their base names (numerically), a
\* chunk without digits before every numbered chunk.
C12_DigitRunOrder ==
  \A d \in Deliveries :
    pc[d] \in {"copy", "mkdir"} => WrittenInOrder(d, DigitRunLE)

\* C12: the chunks are written in non-decreasing order of the number of
\* their base names: the value of the first run of digits when it fits an
\* int (numerically, not lexicographically), and -1, before every other
\* chunk, for a name without digits or with a run above the largest int.
C12_IntRunOrder ==
  \A d \in Deliveries :
    pc[d] \in {"copy", "mkdir"} => WrittenInOrder(d, IntRunLE)

\* p_10, p_2 and x merged: x first, then p_2, then p_10.
C12_Witness ==
  \E d \in Deliveries :
    /\ pc[d] = "mkdir"
    /\ task[d].path = PlainPath
    /\ {f.data : f \in Glob(chunks[PlainPath])} = {<<2>>, <<3>>, <<4>>}
    /\ mergedData[PlainPath] = <<4, 2, 3>>

\* ----------------------------------------------------------------- C13
\* No two files of S have the same sequence number.
DistinctNumbers(S) ==
  \A f, g \in S : f # g => ~(IntRunLE(f.name, g.name) /\ IntRunLE(g.name, f.name))

\* C13: when the chunks of the directory have distinct sequence numbers and
\* mergeChunks has returned nil, merged.mp4 exists and its bytes are exactly
\* the bytes of every chunk, once each, in the order of the sequence
\* numbers: nothing of what the file held before, nothing of another file.
C13_ExactConcatenation ==
  \A d \in Deliveries :
    LET p == task[d].path IN
    (pc[d] = "mkdir" /\ DistinctNumbers(Glob(chunks[p])))
      => /\ mergedIno[p] # 0
         /\ \A s \in OrdersBy(Glob(chunks[p]), IntRunLE) :
              mergedData[p] = Concat(s)

\* A merge of two or more chunks over the merged.mp4 of an earlier run, in a
\* directory that also has a file that is no chunk.
C13_Witness ==
  \E d \in Deliveries :
    /\ pc[d] = "mkdir"
    /\ task[d].path = PlainPath
    /\ mergedIno[PlainPath] = 1
    /\ Cardinality(Glob(chunks[PlainPath])) >= 2
    /\ Glob(chunks[PlainPath]) # chunks[PlainPath]
    /\ DistinctNumbers(Glob(chunks[PlainPath]))

\* ----------------------------------------------------------------- C14
\* The returns of the four steps of processVideo and of processVideo itself.
ProcessCalls == {"mergeChunks:ok", "mergeChunks:err", "MkdirAll:ok", "MkdirAll:err",
                 "ffmpeg:ok", "ffmpeg:err", "Remove:ok", "Remove:err",
                 "processVideo:ok", "processVideo:err"}

IsProcessCall(c) == c \in ProcessCalls

\* What a whole processVideo run may consist of: the steps in their order,
\* each after the success of the one before, the first failure ending it.
ProcessRuns ==
  { <<"mergeChunks:err", "processVideo:err">>,
    <<"mergeChunks:ok", "MkdirAll:err", "processVideo:err">>,
    <<"mergeChunks:ok", "MkdirAll:ok", "ffmpeg:err", "processVideo:err">>,
    <<"mergeChunks:ok", "MkdirAll:ok", "ffmpeg:ok", "Remove:err", "processVideo:err">>,
    <<"mergeChunks:ok", "MkdirAll:ok", "ffmpeg:ok", "Remove:ok", "processVideo:ok">> }

IsPrefix(s, t) == Len(s) <= Len(t) /\ s = SubSeq(t, 1, Len(s))

\* C14: in every invocation the steps of processVideo happen in the order
\* merge, directory creation, transcode, deletion, each only after the one
\* before succeeded; a failed step is followed by no other step and by the
\* error return of processVideo to Handle.
C14_StepOrder ==
  \A d \in Deliveries :
    LET tr == SelectSeq(calls[d], IsProcessCall) IN
    /\ \E r \in ProcessRuns : IsPrefix(tr, r)
    /\ (Done(d) /\ tr # <<>>) => tr \in ProcessRuns

C14_Witness ==
  \E d \in Deliveries :
    /\ Done(d)
    /\ SelectSeq(calls[d], IsProcessCall)
         = <<"mergeChunks:ok", "MkdirAll:err", "processVideo:err">>

\* ----------------------------------------------------------------- C15
\* C15: with one invocation at a time, an invocation whose transcoder
\* succeeded and whose os.Remove of merged.mp4 failed gets an error from
\* processVideo: it returns without a processing record for the video id,
\* without acknowledgment and without confirmation, and the mpeg-dash
\* directory and the manifest are still there.
C15_RemoveFailure ==
  [][\A d \in Deliveries :
       (Returns(d) /\ Has(d, "Remove:err")')
         => /\ Before(d, "ffmpeg:ok", "Remove:err")'
            /\ Before(d, "Remove:err", "processVideo:err")'
            /\ ~Has(d, "processVideo:ok")'
            /\ ~Has(d, "MarkProcessed:ok")' /\ ~Has(d, "MarkProcessed:err")'
            /\ task[d].video_id \notin processed'
            /\ ~Has(d, "Ack")' /\ ~acked'[d]
            /\ ~Has(d, "Publish:ok")' /\ ~Has(d, "Publish:err")'
            /\ ConfirmationsBy(d)' = {}
            /\ dashDir'[task[d].path]
            /\ manifest'[task[d].path] \in Merges(chunks'[task[d].path])]_vars

C15_Witness ==
  \E d \in Deliveries :
    /\ Done(d) /\ Has(d, "ffmpeg:ok") /\ Has(d, "Remove:err")
    /\ ~acked[d]
    /\ task[d].video_id \notin processed
    /\ manifest[task[d].path] # NoFile

\* ----------------------------------------------------------------- C16
\* C16: no step of any invocation, whatever becomes of it, changes the set
\* of files of a task directory or the bytes of one of them.
C16_ChunksUnchanged == [][chunks' = chunks]_vars

\* An invocation that merged and returned and one that failed, with every
\* task directory as it was at the start.
C16_Witness ==
  /\ \E d \in Deliveries : Done(d) /\ Has(d, "processVideo:ok")
  /\ \E d \in Deliveries : Done(d) /\ Has(d, "processVideo:err")
  /\ chunks = [p \in Paths |-> InitDir(p)]

\* ----------------------------------------------------------------- C17
\* The terminal outcomes of the state machine of a task.
ShortCircuit(d) == calls[d] = NoopCalls

Confirmed(d) == Has(d, "processVideo:ok") /\ ConfirmationsBy(d) # {}

ErrorRecorded(d) == ErrorsBy(d) # {}

\* C17: an invocation that has returned is in exactly one of the terminal
\* outcomes: done by the already-processed short-circuit, confirmed after a
\* successful processing, or error-recorded after a failure; and it called
\* processVideo and the transcoder at most once.
C17_OneTerminalOutcome ==
  \A d \in Deliveries :
    Done(d) =>
      /\ Cardinality({o \in {"done", "confirmed", "error-recorded"} :
            \/ o = "done" /\ ShortCircuit(d)
            \/ o = "confirmed" /\ Confirmed(d)
            \/ o = "error-recorded" /\ ErrorRecorded(d)}) = 1
      /\ Cardinality({i \in DOMAIN calls[d] :
            calls[d][i] \in {"processVideo:ok", "processVideo:err"}}) <= 1
      /\ Cardinality({i \in DOMAIN calls[d] :
            calls[d][i] \in {"ffmpeg:ok", "ffmpeg:err"}}) <= 1

\* ----------------------------------------------------------------- C18
\* C18: a processing record appears only in the MarkProcessed step of an
\* invocation whose processVideo returned nil, for the video id of its
\* task; no step removes a processing record; and a step leaves the error
\* records as they are or adds one at the end.
C18_RecordsMonotonic ==
  [][/\ processed \subseteq processed'
     /\ \A v \in processed' \ processed :
          \E d \in Deliveries :
            /\ pc[d] = "mark" /\ pc'[d] = "ack"
            /\ Has(d, "processVideo:ok")
            /\ task[d].video_id = v
     /\ \/ errors' = errors
        \/ Len(errors') = Len(errors) + 1 /\ IsPrefix(errors, errors')]_vars

\* A record written after a successful processVideo, and an error record
\* registered after it.
C18_Witness ==
  \E d \in Deliveries :
    /\ Has(d, "processVideo:ok") /\ Has(d, "MarkProcessed:ok")
    /\ task[d].video_id \in processed
    /\ \E i \in DOMAIN errors : errors[i].run > d

\* ----------------------------------------------------------------- C19
\* C19: an invocation whose confirmation publish failed has marked the video
\* processed, then acknowledged, then published; the message is
\* acknowledged, the processing record is there, and the invocation leaves
\* no confirmation and no error record.  Every invocation that makes its
\* idempotency check for that video id after the failed publish takes the
\* already-processed short-circuit and publishes nothing.
C19_LostConfirmation ==
  [][\A d \in Deliveries :
       /\ Has(d, "Publish:err")' =>
            /\ Before(d, "MarkProcessed:ok", "Ack")'
            /\ Before(d, "Ack", "Publish:err")'
            /\ acked'[d]
            /\ task'[d].video_id \in processed'
            /\ ConfirmationsBy(d)' = {}
            /\ ErrorsBy(d)' = {}
       /\ Has(d, "Publish:err") =>
            \A e \in Deliveries :
              (pc[e] = "check" /\ pc'[e] # "check"
                 /\ task[e].video_id = task[d].video_id)
                => /\ pc'[e] = "done"
                   /\ calls'[e] = NoopCalls
                   /\ ConfirmationsBy(e)' = {}]_vars

\* A video id with a processing record and two acknowledged deliveries, the
\* second one short-circuited, and no confirmation at all.
C19_Witness ==
  \E d, e \in Deliveries :
    /\ Has(d, "Publish:err") /\ acked[d]
    /\ task[d].video_id \in processed
    /\ d < e /\ Done(e) /\ task[e].video_id = task[d].video_id
    /\ calls[e] = NoopCalls /\ acked[e]
    /\ confirmations = <<>>

\* ----------------------------------------------------------------- C20
\* The message processVideo registers for the failure of a step.
StepMessage(c) ==
  CASE c = "mergeChunks:err" -> "Failed to merge chunks"
    [] c = "MkdirAll:err"    -> "Failed to create mpeg-dash directory"
    [] c = "ffmpeg:err"      -> "Failed to convert to mpeg-dash"
    [] c = "Remove:err"      -> "Failed to remove merged file"

\* The error records of the invocation of d, in the order it wrote them.
ErrorsOf(d) ==
  LET ByD(r) == r.run = d
  IN  SelectSeq(errors, ByD)

\* The error record the invocation of d writes with the message m.
ErrorRecord(d, m) == [video_id |-> task[d].video_id, error |-> m, run |-> d]

\* C20: an invocation that has returned after a failure of a step of
\* processVideo has written exactly two error records for the video id of
\* its task, the message of the step and then "Failed to process video";
\* one that returned after an unmarshal failure or after a MarkProcessed
\* failure has written exactly one.
C20_ErrorRecordCount ==
  \A d \in Deliveries :
    (Done(d) /\ \E i \in DOMAIN calls[d] : calls[d][i] \in FailureCalls) =>
      LET written == ErrorsOf(d) IN
      /\ \A c \in StepFailures :
           Has(d, c) =>
             written = << ErrorRecord(d, StepMessage(c)),
                          ErrorRecord(d, "Failed to process video") >>
      /\ Has(d, "Unmarshal:err") =>
           written = << ErrorRecord(d, "Failed to unmarshal task") >>
      /\ Has(d, "MarkProcessed:err") =>
           written = << ErrorRecord(d, "Failed to mark video as processed") >>

C20_Witness ==
  \E d \in Deliveries :
    /\ Done(d) /\ Has(d, "ffmpeg:err")
    /\ Len(ErrorsOf(d)) = 2

====
